---- MODULE Spec2Model ----
(***************************************************************************)
(* Model of the embeddable chat widget: createAssistant (session           *)
(* resolution, context de-duplication, message sends, new-conversation     *)
(* action) and the Chat component (history, typing indicator, visibility,  *)
(* HTML sanitizer).                                                        *)
(*                                                                         *)
(* A JavaScript string is a sequence of tokens; a token is one character   *)
(* or an opaque fragment of text.  null / undefined is the token Null.     *)
(* A conversation id is a positive number, 0 standing for null.            *)
(***************************************************************************)
EXTENDS Integers, Sequences, FiniteSets, TLC

\* ------------------------------------------------------------------ bounds
MaxTextLen == 1      \* longest raw page text
MaxSends == 2        \* accepted submits per run
MaxNewConv == 1      \* new-conversation clicks per run
MaxHistory == 1      \* messages in a history response
MaxNodes == 3        \* elements in the html given to sanitizeHtml
MaxContextSends == 3 \* accepted submits per run of SpecContext
MaxPlainLen == 3     \* pieces in the text of a plain message
MaxApiCalls == 2     \* calls of the methods of the returned object per run
MaxReloadNewConv == 2   \* new-conversation actions before the page is reloaded
MaxHostSends == 1    \* accepted submits per run of SpecHost

\* --------------------------------------------------------------- constants
MaxContextLength == 8000

Null == "null"
\* a string-valued field that is absent
Undefined == <<"undefined">>
NoConv == 0

Chars == {" ", "\n", "a"}
Whitespace == {" ", "\n"}
ClientIds == {"A", "B"}
\* what localStorage holds when the page loads
StoredClientIds == {"A", Null}
\* what the server may give a conversation it creates as client_id
NewClientIds == {"B", Null}

Min(a, b) == IF a < b THEN a ELSE b

RECURSIVE SeqsUpTo(_, _)
SeqsUpTo(S, n) ==
  IF n = 0 THEN {<<>>}
  ELSE LET shorter == SeqsUpTo(S, n - 1)
       IN  shorter \cup {Append(s, c) : s \in {t \in shorter : Len(t) = n - 1}, c \in S}

\* raw texts the page (innerText) can hold
PageTexts == SeqsUpTo(Chars, MaxTextLen)

\* values of the textarea when the user submits
TextareaValues == {<<>>, <<" ", "\n">>, <<"a">>, <<" ", "a", " ">>}

\* ----------------------------------------------------------- string helpers
\* String.prototype.replace(/\s+/g, " ")
RECURSIVE CollapseWhitespace(_)
CollapseWhitespace(s) ==
  IF s = <<>> THEN <<>>
  ELSE IF s[1] \in Whitespace
       THEN IF Len(s) > 1 /\ s[2] \in Whitespace
            THEN CollapseWhitespace(Tail(s))
            ELSE <<" ">> \o CollapseWhitespace(Tail(s))
       ELSE <<s[1]>> \o CollapseWhitespace(Tail(s))

\* textarea.value without the trim
Untrimmed(s) == s

RECURSIVE TrimStart(_)
TrimStart(s) ==
  IF s # <<>> /\ s[1] \in Whitespace THEN TrimStart(Tail(s)) ELSE s

RECURSIVE TrimEnd(_)
TrimEnd(s) ==
  IF s # <<>> /\ s[Len(s)] \in Whitespace
  THEN TrimEnd(SubSeq(s, 1, Len(s) - 1)) ELSE s

\* String.prototype.trim()
Trim(s) == TrimEnd(TrimStart(s))

\* String.prototype.substring(0, n)
Substring(s, n) == SubSeq(s, 1, Min(Len(s), n))

\* String.prototype.includes for a one-token needle
Includes(s, tok) == \E i \in 1..Len(s) : s[i] = tok

\* context.replace(/\s+/g, " ").trim().substring(0, 8000)
NormalizeContext(context) ==
  Substring(Trim(CollapseWhitespace(context)), MaxContextLength)

\* ------------------------------------------------------------ fixed texts
NoActiveConversation == <<"No active conversation.">>
NoResponseFromAssistant == <<"No response from the assistant.">>
SendErrorText ==
  <<"Sorry, there was an error processing your message. Please try again.">>
InvalidMessageText == <<"Please write a valid message.">>
ChatErrorText == <<"Sorry, an error occurred while processing your message.">>
UnavailableText ==
  <<"The assistant is not available at this time. Please try again later.">>
EmergencyInitialMessage ==
  <<"Sorry, I couldn't connect to the server. Please check your connection and try again.">>
DefaultInitialMessage == <<"Hello, how can I help you?">>

AudioUrlKey == "\"audio_url\":\""
HtmlMarkers == {"<img", "<p>", "<br>"}

\* what the remote service may answer
ServerContents == {<<"hello">>}
AudioUrls == {"u.mp3"}

\* JSON.stringify({content, audio_url})
JsonStringify(content, audio_url) ==
  IF content = Undefined
  THEN <<"{", AudioUrlKey, audio_url, "\"}">>
  ELSE <<"{\"content\":\"">> \o content \o <<"\",", AudioUrlKey, audio_url, "\"}">>

\* text.match(/"audio_url"\s*:\s*"([^"]+)"/s): the captured URL, or Null
AudioUrlMatch(text) ==
  IF \E i \in 1..(Len(text) - 1) : text[i] = AudioUrlKey
  THEN text[(CHOOSE i \in 1..(Len(text) - 1) :
               /\ text[i] = AudioUrlKey
               /\ \A j \in 1..(i - 1) : text[j] # AudioUrlKey) + 1]
  ELSE Null

\* response.includes("<img") || response.includes("<p>") || response.includes("<br>")
ContainsHtml(response) == \E m \in HtmlMarkers : Includes(response, m)

\* response.includes("audio_url")
ContainsAudio(response) == Includes(response, AudioUrlKey)

\* ------------------------------------------------------------------- state
VARIABLES
  storage,                   \* localStorage["ai-client-id"]
  storageWrites,             \* calls of localStorage.setItem so far
  remote,                    \* the server's conversation list, most recent first
  nextConvId,                \* the id the server gives the next conversation
  audioAnswers,              \* options.audioAnswers
  autoOpen,                  \* options.autoOpen
  hostOnSend,                \* whether the options object holds an onSend function
  apiCalls,                  \* the methods of the returned object called so far
  buttonMounted,             \* whether the floating button is in the document
  reloadedFrom,              \* the conversation that was active when the page was reloaded
  initPc,                    \* where initConversationAndMountChat is suspended
  storedClientId,            \* its local storedClientId
  conversations,             \* its local conversations
  useExisting,               \* its local useExisting
  conversationId,            \* closure variables of createAssistant
  conversationClientId,
  lastConversationClientId,
  pendingOpen,
  lastContext,
  chat,                      \* index into chats of the closure variable chat, 0 = null
  chats,                     \* the Chat instances mounted, in document order
  pendingOpenUses,           \* times the pending-open branch has opened the chat
  submits,                   \* submits accepted so far
  sends,                     \* message requests dispatched, in dispatch order
  newConvClicks,             \* new-conversation clicks so far
  newConvPending,            \* creation requests of the new-conversation action in flight
  newConvReplies,            \* conversations the server created for them, not yet received
  unhandledRejections,       \* promises rejected with no handler so far
  requests,                  \* requests issued by initialization, in order
  dom,                       \* the detached element sanitizeHtml works on
  clean,                     \* <<>>, or <<the element after cleanElement>>
  plain,                     \* the text of a plain message given to addMessage
  formatted                  \* <<>>, or <<the innerHTML addMessage sets for it>>

storageVars == <<storage, storageWrites>>
optionVars == <<audioAnswers, autoOpen, hostOnSend>>
serverVars == <<remote, nextConvId>>
initVars == <<initPc, storedClientId, conversations, useExisting, requests>>
closureVars == <<conversationId, conversationClientId, lastConversationClientId,
                 pendingOpen, lastContext, chat>>
sendVars == <<submits, sends>>
newConvVars == <<newConvClicks, newConvPending, newConvReplies, unhandledRejections>>
formatVars == <<plain, formatted>>
sanitizerVars == <<dom, clean, formatVars>>
hostVars == <<apiCalls, buttonMounted, reloadedFrom>>
widgetVars == <<storageVars, serverVars, optionVars, initVars, closureVars, chats,
                pendingOpenUses, sendVars, newConvVars, hostVars>>

vars == <<widgetVars, sanitizerVars>>

\* --------------------------------------------------------- Chat component
Message(cls, kind, text) == [cls |-> cls, kind |-> kind, text |-> text]
TypingIndicator == Message("typing", "typing", <<>>)

\* Chat.addMessage on a message list, with this.options.audioAnswers = audio
addMessage(list, text, sender, isHtml, audio) ==
  IF audio /\ sender = "assistant"
  THEN IF AudioUrlMatch(text) # Null
       THEN Append(list, Message(sender, "audio", <<AudioUrlMatch(text)>>))
       ELSE list
  ELSE IF isHtml /\ sender = "assistant"
       THEN Append(list, Message(sender, "html", text))
       ELSE Append(list, Message(sender, "plain", text))

\* Chat.showTypingIndicator
showTypingIndicator(list) == Append(list, TypingIndicator)

RemoveAt(list, i) == SubSeq(list, 1, i - 1) \o SubSeq(list, i + 1, Len(list))

HasTyping(list) == \E i \in 1..Len(list) : list[i] = TypingIndicator

\* the first child of the list, whatever it is
FirstChild(list) == 1

FirstTyping(list) ==
  CHOOSE i \in 1..Len(list) :
    /\ list[i] = TypingIndicator
    /\ \A j \in 1..(i - 1) : list[j] # TypingIndicator

\* whether the document holds a typing indicator inside chat ch
ShowsTyping(ch) == ch.mounted /\ HasTyping(ch.messageList)

\* Chat.hideTypingIndicator: document.getElementById finds the first element
\* with that id in document order, whichever mounted chat it is in
hideTypingIndicator(cs) ==
  IF \E c \in 1..Len(cs) : ShowsTyping(cs[c])
  THEN LET c == CHOOSE k \in 1..Len(cs) :
                  /\ ShowsTyping(cs[k])
                  /\ \A j \in 1..(k - 1) : ~ShowsTyping(cs[j])
       IN  [cs EXCEPT ![c].messageList = RemoveAt(@, FirstTyping(@))]
  ELSE cs

\* Chat.toggle
toggle(ch) == [ch EXCEPT !.isOpen = ~@]

\* open() without the test of isOpen
openUnguarded(ch) == toggle(ch)

\* Chat.open
open(ch) == IF ~ch.isOpen THEN toggle(ch) ELSE ch

\* Chat.close
close(ch) == IF ch.isOpen THEN toggle(ch) ELSE ch

\* Chat.resetTextarea
resetTextarea(ch) == [ch EXCEPT !.textarea = <<>>]

\* Chat.clearMessages
clearMessages(ch) == resetTextarea([ch EXCEPT !.messageList = <<>>])

\* new Chat(options): addInitialMessage, then open() when options.isOpen
NewChat(kind, initialMessage, audio, isOpenOption) ==
  LET ch == [kind |-> kind,
             isOpen |-> FALSE,
             mounted |-> FALSE,
             textarea |-> <<>>,
             messageList |-> addMessage(<<>>, initialMessage, "assistant", FALSE, audio),
             onNewConversation |-> FALSE]
  IN  IF isOpenOption THEN open(ch) ELSE ch

\* Chat.mount: the container of the widget is always found
mount(ch) == [ch EXCEPT !.mounted = TRUE]

\* Chat.unmount
unmount(ch) == [ch EXCEPT !.mounted = FALSE]

\* Chat.setOnNewConversation
setOnNewConversation(ch) == [ch EXCEPT !.onNewConversation = TRUE]

\* ------------------------------------------------------------- environment
Conversation(id, client_id) == [id |-> id, client_id |-> client_id]

\* GET /conversation/user: nothing, or one earlier conversation
RemoteLists == {<<>>} \cup {<<Conversation(1, c)>> : c \in ClientIds \cup {Null}}

\* the messages GET /conversation/{id} may return; content Undefined is a
\* message without the content field
HistoryMessage(content, sender, audio_url) ==
  [content |-> content, sender |-> sender, audio_url |-> audio_url]
HistoryMessages ==
  {HistoryMessage(<<"hello">>, "user", Null),
   HistoryMessage(<<"hello">>, "assistant", "u.mp3"),
   HistoryMessage(Undefined, "assistant", Null)}
Histories == SeqsUpTo(HistoryMessages, MaxHistory)

\* the outcomes of POST /conversation/{id}/message: the request fails, the
\* answer holds no assistant message, or it holds one
SendOutcome(kind, content, audio_url) ==
  [kind |-> kind, content |-> content, audio_url |-> audio_url]
SendOutcomes ==
  {SendOutcome("fail", Undefined, Null), SendOutcome("none", Undefined, Null)} \cup
  {SendOutcome("message", c, u) : c \in ServerContents, u \in AudioUrls \cup {Null}}

\* POST /conversation/ on the server: a new conversation, listed first
ServerCreate(cid) ==
  /\ remote' = <<Conversation(nextConvId, cid)>> \o remote
  /\ nextConvId' = nextConvId + 1

\* ------------------------------------------------------------ HTML sanitizer
\* an element is its tag, the names of its attributes and its child elements
Element(tag, attrs, children) == [tag |-> tag, attrs |-> attrs, children |-> children]

\* const allowedTags / allowedAttributes of sanitizeHtml
allowedTags == {"img", "br", "p", "strong", "em", "b", "i"}
allowedAttributes(tagName) ==
  CASE tagName = "img" -> {"src", "alt", "style", "width", "height"}
    [] tagName = "p" -> {"style"}
    [] OTHER -> {}

\* cleanElement without the recursive call
cleanChildShallow(child) ==
  IF child.tag \notin allowedTags
  THEN <<>>
  ELSE <<Element(child.tag,
                 {a \in child.attrs : a \in allowedAttributes(child.tag)},
                 child.children)>>

\* the forEach body of cleanElement for one child: nothing when the child is
\* removed, else the child with its attributes filtered and its children cleaned
RECURSIVE cleanChildren(_)
\* the forEach body replacing a disallowed child by its cleaned children
cleanChildUnwrapped(child) ==
  IF child.tag \notin allowedTags
  THEN cleanChildren(child.children)
  ELSE <<Element(child.tag,
                 {a \in child.attrs : a \in allowedAttributes(child.tag)},
                 cleanChildren(child.children))>>

cleanChild(child) ==
  IF child.tag \notin allowedTags
  THEN <<>>
  ELSE <<Element(child.tag,
                 {a \in child.attrs : a \in allowedAttributes(child.tag)},
                 cleanChildren(child.children))>>

cleanChildren(children) ==
  IF children = <<>> THEN <<>>
  ELSE cleanChild(children[1]) \o cleanChildren(Tail(children))

\* Chat.cleanElement(element, allowedTags, allowedAttributes)
cleanElement(element) == [element EXCEPT !.children = cleanChildren(@)]

\* Chat.sanitizeHtml: temp is a div holding the parsed html
sanitizeHtml(temp) == cleanElement(temp)

\* the elements below e, at any depth
RECURSIVE Descendants(_)
Descendants(e) ==
  UNION {{e.children[i]} \cup Descendants(e.children[i]) : i \in 1..Len(e.children)}

RECURSIVE Size(_), SumSizes(_)
SumSizes(children) ==
  IF children = <<>> THEN 0 ELSE Size(children[1]) + SumSizes(Tail(children))
Size(e) == 1 + SumSizes(e.children)

\* e with child appended to the element the path of child indices leads to
RECURSIVE AppendAt(_, _, _)
AppendAt(e, path, child) ==
  IF path = <<>>
  THEN [e EXCEPT !.children = Append(@, child)]
  ELSE [e EXCEPT !.children[path[1]] = AppendAt(@, Tail(path), child)]

\* the paths to the elements of e that the parser lets hold children
RECURSIVE Paths(_)
Paths(e) ==
  {<<>>} \cup
  UNION {{<<i>> \o q : q \in Paths(e.children[i])} :
           i \in {k \in 1..Len(e.children) : e.children[k].tag \notin {"img", "br", "script"}}}

\* ------------------------------------------------------ createAssistant
Request(endpoint, status) == [endpoint |-> endpoint, status |-> status]
Issue(log, endpoint) == Append(log, Request(endpoint, "pending"))
Answer(log, endpoint, ok) ==
  [r \in 1..Len(log) |->
     IF log[r].endpoint = endpoint /\ log[r].status = "pending"
     THEN Request(endpoint, IF ok THEN "ok" ELSE "failed")
     ELSE log[r]]
Issued(endpoint) == Cardinality({r \in 1..Len(requests) : requests[r].endpoint = endpoint})
Failed(endpoint) ==
  \E r \in 1..Len(requests) : requests[r] = Request(endpoint, "failed")
Succeeded(endpoint) ==
  \E r \in 1..Len(requests) : requests[r] = Request(endpoint, "ok")

EmptyFragment == Element("div", {}, <<>>)

\* the state when createAssistant returns: the button is mounted, and
\* initConversationAndMountChat has read localStorage and awaits the listing
WidgetInit ==
  /\ storage \in StoredClientIds
  /\ storageWrites = 0
  /\ remote \in RemoteLists
  /\ nextConvId = 2
  /\ audioAnswers \in BOOLEAN
  /\ autoOpen \in BOOLEAN
  /\ apiCalls = <<>>
  /\ buttonMounted = TRUE
  /\ reloadedFrom = NoConv
  /\ initPc = "listing"
  /\ storedClientId = storage
  /\ conversations = <<>>
  /\ useExisting = FALSE
  /\ conversationId = NoConv
  /\ conversationClientId = Null
  /\ lastConversationClientId = Null
  /\ pendingOpen = FALSE
  /\ lastContext = <<>>
  /\ chat = 0
  /\ chats = <<>>
  /\ pendingOpenUses = 0
  /\ submits = 0
  /\ sends = <<>>
  /\ newConvClicks = 0
  /\ newConvPending = 0
  /\ newConvReplies = <<>>
  /\ unhandledRejections = 0
  /\ requests = <<Request("list", "pending")>>

Init ==
  /\ WidgetInit
  /\ hostOnSend = FALSE
  /\ dom = EmptyFragment
  /\ clean = <<>>
  /\ plain = <<>>
  /\ formatted = <<>>

\* new Chat({...chatOptions, onSend}), chat.mount, chat.setOnNewConversation
NetworkedChat ==
  setOnNewConversation(
    mount(NewChat("networked", DefaultInitialMessage, audioAnswers, autoOpen)))

\* the catch block's new Chat({...chatOptions, onSend, initialMessage})
EmergencyChat ==
  mount(NewChat("emergency", EmergencyInitialMessage, audioAnswers, autoOpen))

\* the check that a client id is stored, without the comparison
ClientIdStored(stored, firstConv) == stored # Null

\* the comparison without the check that a client id is stored
ClientIdEquals(stored, firstConv) == stored = firstConv.client_id

\* if (storedClientId && storedClientId === firstConv.client_id)
ClientIdMatches(stored, firstConv) ==
  stored # Null /\ stored = firstConv.client_id

\* the condition of the history load without useExisting
LoadsHistoryAnyMode(convId, existing, persisted, lastClientId) ==
  convId # NoConv /\ persisted = lastClientId

\* the condition of the history load
LoadsHistory(convId, existing, persisted, lastClientId) ==
  convId # NoConv /\ existing /\ persisted = lastClientId

\* localStorage.setItem("ai-client-id", ...) without the test of the id
PersistUnguarded(cid, persisted) == cid

\* if (conversationClientId) localStorage.setItem("ai-client-id", ...)
Persist(cid, persisted) == IF cid # Null THEN cid ELSE persisted
PersistCalls(cid, calls) == IF cid # Null THEN calls + 1 ELSE calls

\* the pending-open branch without chat.open()
ForgetPendingOpen(ch) == ch

\* if (pendingOpen) { chat.open(); pendingOpen = false; }
ConsumePendingOpen(ch) == IF pendingOpen THEN open(ch) ELSE ch

\* the end of initConversationAndMountChat, try block or catch block, with ch
\* the chat just created or the one awaiting its history
FinishInit(cs) ==
  /\ chats' = cs
  /\ pendingOpen' = FALSE
  /\ pendingOpenUses' = IF pendingOpen THEN pendingOpenUses + 1 ELSE pendingOpenUses
  /\ initPc' = "done"

\* the try block from new Chat(...) on, once the conversation is settled:
\* mount the chat, then await the history or finish
MountChat(convId, existing, persisted, lastClientId, log) ==
  /\ chat' = Len(chats) + 1
  /\ IF LoadsHistory(convId, existing, persisted, lastClientId)
     THEN /\ chats' = Append(chats, NetworkedChat)
          /\ initPc' = "history"
          /\ requests' = Issue(log, "history")
          /\ UNCHANGED <<pendingOpen, pendingOpenUses>>
     ELSE /\ FinishInit(Append(chats, ConsumePendingOpen(NetworkedChat)))
          /\ requests' = log

\* a catch block that logs the error and mounts nothing
LogError(cs, log) ==
  /\ chat' = chat
  /\ chats' = cs
  /\ UNCHANGED <<pendingOpen, pendingOpenUses>>
  /\ initPc' = "done"
  /\ requests' = log

\* the catch block
MountEmergencyChat(cs, log) ==
  /\ chat' = Len(cs) + 1
  /\ FinishInit(Append(cs, ConsumePendingOpen(EmergencyChat)))
  /\ requests' = log

\* the continuation of fetchAllConversations inside initConversationAndMountChat;
\* fetchAllConversations answers a failed request with the empty list
ListingResponse(ok) ==
  /\ initPc = "listing"
  /\ LET list == IF ok THEN remote ELSE <<>>
         log == Answer(requests, "list", ok)
     IN  /\ conversations' = list
         /\ IF Len(list) > 0
            THEN /\ conversationId' = list[1].id
                 /\ lastConversationClientId' = list[1].client_id
            ELSE UNCHANGED <<conversationId, lastConversationClientId>>
         /\ IF Len(list) > 0 /\ ClientIdMatches(storedClientId, list[1])
            THEN /\ useExisting' = TRUE
                 /\ storage' = list[1].client_id
                 /\ storageWrites' = storageWrites + 1
                 /\ MountChat(list[1].id, TRUE, list[1].client_id,
                              list[1].client_id, log)
            ELSE /\ initPc' = "creating"
                 /\ requests' = Issue(log, "create")
                 /\ UNCHANGED <<useExisting, storageVars, chat, chats, pendingOpen,
                                pendingOpenUses>>
  /\ UNCHANGED <<serverVars, optionVars, storedClientId, conversationClientId,
                 lastContext, sendVars, newConvVars, sanitizerVars,
                 hostVars>>

\* the continuation of the creation request: the chat is mounted, or the
\* catch block mounts the emergency chat
CreateResponse(ok, cid) ==
  /\ initPc = "creating"
  /\ IF ok
     THEN /\ conversationId' = nextConvId
          /\ conversationClientId' = cid
          /\ storage' = Persist(cid, storage)
          /\ storageWrites' = PersistCalls(cid, storageWrites)
          /\ ServerCreate(cid)
          /\ useExisting' = FALSE
          /\ MountChat(nextConvId, FALSE, Persist(cid, storage),
                       lastConversationClientId, Answer(requests, "create", ok))
     ELSE /\ cid = Null
          /\ MountEmergencyChat(chats, Answer(requests, "create", ok))
          /\ UNCHANGED <<conversationId, conversationClientId, storageVars,
                         serverVars, useExisting>>
  /\ UNCHANGED <<optionVars, storedClientId, conversations,
                 lastConversationClientId, lastContext, sendVars, newConvVars,
                 sanitizerVars,
                 hostVars>>

\* messages.forEach(...) of the history load: the list after the replay, and
\* whether a message without content made includes() throw
RECURSIVE ReplayHistory(_, _)
ReplayHistory(list, messages) ==
  IF messages = <<>> THEN [list |-> list, threw |-> FALSE]
  ELSE LET msg == messages[1]
           asAudio == audioAnswers /\ msg.sender = "assistant" /\ msg.audio_url # Null
       IN  IF ~asAudio /\ msg.content = Undefined
           THEN [list |-> list, threw |-> TRUE]
           ELSE LET messageContent ==
                      IF asAudio
                      THEN JsonStringify(msg.content, msg.audio_url)
                      ELSE msg.content
                IN  ReplayHistory(
                      addMessage(list, messageContent,
                                 IF msg.sender = "user" THEN "user" ELSE "assistant",
                                 ContainsHtml(messageContent) \/ ContainsAudio(messageContent),
                                 audioAnswers),
                      Tail(messages))

\* the continuation of fetchMessages inside initConversationAndMountChat;
\* fetchMessages answers a failed request with the empty list
HistoryResponse(ok, messages) ==
  /\ initPc = "history"
  /\ ~ok => messages = <<>>
  /\ LET replay == ReplayHistory(chats[chat].messageList, messages)
         replayed == [chats EXCEPT ![chat].messageList = replay.list]
         log == Answer(requests, "history", ok)
     IN  IF replay.threw
         THEN MountEmergencyChat(replayed, log)
         ELSE /\ FinishInit([replayed EXCEPT ![chat] = ConsumePendingOpen(@)])
              /\ requests' = log
              /\ UNCHANGED chat
  /\ UNCHANGED <<storageVars, serverVars, optionVars, storedClientId, conversations,
                 useExisting, conversationId, conversationClientId,
                 lastConversationClientId, lastContext, sendVars, newConvVars,
                 sanitizerVars,
                 hostVars>>

\* ------------------------------------------------------------ interaction
\* button.setOnClick handler
ButtonClick ==
  /\ buttonMounted
  /\ IF chat # 0
     THEN /\ chats' = [chats EXCEPT ![chat] = toggle(@)]
          /\ UNCHANGED pendingOpen
     ELSE /\ pendingOpen' = TRUE
          /\ UNCHANGED chats
  /\ UNCHANGED <<storageVars, serverVars, optionVars, initVars, conversationId,
                 conversationClientId, lastConversationClientId, lastContext,
                 chat, pendingOpenUses, sendVars, newConvVars, sanitizerVars,
                 hostVars>>

\* the document click listener of every chat: an open chat that does not
\* contain the target toggles; inside = 0 is a target outside every chat
DocumentClick(cs, inside) ==
  [c \in 1..Len(cs) |-> IF cs[c].isOpen /\ c # inside THEN toggle(cs[c]) ELSE cs[c]]

\* a click on the close button of chat c
CloseClick(c) ==
  /\ c \in 1..Len(chats)
  /\ chats[c].mounted
  /\ chats[c].isOpen
  /\ chats' = DocumentClick([chats EXCEPT ![c] = toggle(@)], c)
  /\ UNCHANGED <<storageVars, serverVars, optionVars, initVars, closureVars,
                 pendingOpenUses, sendVars, newConvVars, sanitizerVars,
                 hostVars>>

\* a click on the page, outside the chats and the floating button
OutsideClick ==
  /\ \E c \in 1..Len(chats) : chats[c].isOpen
  /\ chats' = DocumentClick(chats, 0)
  /\ UNCHANGED <<storageVars, serverVars, optionVars, initVars, closureVars,
                 pendingOpenUses, sendVars, newConvVars, sanitizerVars,
                 hostVars>>

\* ------------------------------------------------------------------- sends
HashPrefixLength == 100

\* contextToSend of sendMessageToApi
ContextToSend(normalizedContext, last) ==
  IF normalizedContext = last THEN <<>> ELSE normalizedContext

\* lastContext after sendMessageToApi has prepared the context
UpdatedLastContext(normalizedContext, last) ==
  IF ContextToSend(normalizedContext, last) # <<>> THEN normalizedContext ELSE last

\* contextHash of the request body
ContextHash(contextToSend) ==
  IF contextToSend # <<>>
  THEN <<"btoa">> \o Substring(contextToSend, HashPrefixLength)
  ELSE <<Null>>

\* document.querySelector(".ia-chat-input") at the start of the networked
\* onSend: the textarea of the first chat in the document
FirstTextarea(cs) ==
  CHOOSE k \in 1..Len(cs) : cs[k].mounted /\ \A j \in 1..(k - 1) : ~cs[j].mounted

\* the request sendMessageToApi dispatches; textarea is the element onSend
\* holds while it awaits
SendRequest(c, message, normalizedContext) ==
  [chat |-> c,
   textarea |-> FirstTextarea(chats),
   conv |-> conversationId,
   content |-> message,
   norm |-> normalizedContext,
   context |-> ContextToSend(normalizedContext, lastContext),
   contextHash |-> ContextHash(ContextToSend(normalizedContext, lastContext)),
   status |-> "pending"]

\* textarea.value = "" of the networked onSend, on the element it holds
ClearTextarea(cs, k) == [cs EXCEPT ![k] = resetTextarea(@)]

\* the response put before the last message instead of after it
ShowResponseBeforeLast(cs, c, response) ==
  LET hidden == hideTypingIndicator(cs)
      list == hidden[c].messageList
      added == addMessage(<<>>, response, "assistant",
                          ContainsHtml(response) \/ ContainsAudio(response),
                          audioAnswers)
  IN  [hidden EXCEPT ![c].messageList =
         IF list = <<>> THEN added
         ELSE SubSeq(list, 1, Len(list) - 1) \o added \o <<list[Len(list)]>>]

\* Chat.sendMessage shows the value the networked onSend resolved to
ShowResponse(cs, c, response) ==
  LET hidden == hideTypingIndicator(cs)
  IN  [hidden EXCEPT ![c].messageList =
         addMessage(@, response,
                    "assistant",
                    ContainsHtml(response) \/ ContainsAudio(response),
                    audioAnswers)]

\* the emergency chat's onSend: the fixed text, isHtml false
ShowUnavailable(cs, c) ==
  LET hidden == hideTypingIndicator(cs)
  IN  [hidden EXCEPT ![c].messageList =
         addMessage(@, UnavailableText, "assistant", FALSE, audioAnswers)]

\* the user types text into the textarea of chat c and sends it, the page
\* showing page, while fewer than max submits were accepted: Chat.sendMessage
\* up to its await; an onSend that resolves without a request is shown in the
\* same step
SubmitUpTo(max, c, text, page) ==
  /\ c \in 1..Len(chats)
  /\ chats[c].mounted
  /\ chats[c].isOpen
  /\ submits < max
  /\ LET message == Trim(text)
         shown == [chats EXCEPT ![c] =
                     resetTextarea(
                       [@ EXCEPT !.messageList =
                          showTypingIndicator(
                            addMessage(@, message, "user", FALSE, audioAnswers))])]
     IN  IF message = <<>>
         THEN /\ chats' = [chats EXCEPT ![c].textarea = text]
              /\ UNCHANGED <<submits, sends, lastContext>>
         ELSE /\ submits' = submits + 1
              /\ IF chats[c].kind = "emergency"
                 THEN /\ chats' = ShowUnavailable(shown, c)
                      /\ UNCHANGED <<sends, lastContext>>
                 ELSE IF conversationId = NoConv
                 THEN /\ chats' = ShowResponse(ClearTextarea(shown, FirstTextarea(chats)),
                                              c, NoActiveConversation)
                      /\ UNCHANGED <<sends, lastContext>>
                 ELSE /\ chats' = shown
                      /\ sends' = Append(sends, SendRequest(c, message,
                                                           NormalizeContext(page)))
                      /\ lastContext' = UpdatedLastContext(NormalizeContext(page),
                                                          lastContext)
  /\ UNCHANGED <<storageVars, serverVars, optionVars, initVars, conversationId,
                 conversationClientId, lastConversationClientId, pendingOpen,
                 chat, pendingOpenUses, newConvVars, sanitizerVars,
                 hostVars>>

Submit(c, text, page) == SubmitUpTo(MaxSends, c, text, page)

\* Function to process HTML content: content.replace(/\\"/g, '"'); the second
\* replacement rewrites styled <img> tags, which no answer of ServerContents holds
processHtmlContent(content) ==
  [i \in 1..Len(content) |-> IF content[i] = "\\\"" THEN "\"" ELSE content[i]]

\* the string sendMessageToApi resolves to
ApiResponse(outcome) ==
  IF outcome.kind = "fail" THEN SendErrorText
  ELSE IF outcome.kind = "none" THEN NoResponseFromAssistant
  ELSE IF audioAnswers /\ outcome.audio_url # Null
       THEN JsonStringify(outcome.content, outcome.audio_url)
       ELSE processHtmlContent(outcome.content)

\* the response of request i arrives: sendMessageToApi returns, onSend
\* empties the textarea it holds and classifies, Chat.sendMessage hides the
\* indicator and appends the message
SendResponse(i, outcome) ==
  /\ i \in 1..Len(sends)
  /\ sends[i].status = "pending"
  /\ sends' = [sends EXCEPT ![i].status =
                 IF outcome.kind = "fail" THEN "failed" ELSE "ok"]
  /\ chats' = ShowResponse(ClearTextarea(chats, sends[i].textarea),
                           sends[i].chat, ApiResponse(outcome))
  /\ UNCHANGED <<storageVars, serverVars, optionVars, initVars, closureVars,
                 pendingOpenUses, submits, newConvVars, sanitizerVars,
                 hostVars>>

\* -------------------------------------------------------- new conversation
\* a click on the new-conversation button of chat c, while fewer than max
\* were made: the callback runs up to its await
NewConversationClickUpTo(max, c) ==
  /\ c \in 1..Len(chats)
  /\ chats[c].mounted
  /\ chats[c].isOpen
  /\ chats[c].onNewConversation
  /\ newConvClicks < max
  /\ newConvClicks' = newConvClicks + 1
  /\ newConvPending' = newConvPending + 1
  /\ UNCHANGED <<newConvReplies, unhandledRejections, storageVars, serverVars,
                 optionVars, initVars, closureVars, chats,
                 pendingOpenUses, sendVars, sanitizerVars,
                 hostVars>>

NewConversationClick(c) == NewConversationClickUpTo(MaxNewConv, c)

\* the callback without lastContext = ""
KeepContext(last) == last

\* lastContext = "" of the callback
ResetContext(last) == <<>>

\* how a fetch may end: a response with an ok status, a response with
\* another status, or a rejected promise (the network failed)
FetchOutcomes == {"ok", "status", "rejected"}

\* a test that takes every response for a success
ResponseArrived(outcome) == outcome # "rejected"

\* if (response.ok) of the callback
ResponseOk(outcome) == outcome = "ok"

\* the continuation of the callback when its creation request has ended: the
\* callback has no try block, and the click handler drops the promise the
\* callback returns
NewConversationResponse(outcome, cid) ==
  /\ newConvPending > 0
  /\ newConvPending' = newConvPending - 1
  /\ unhandledRejections' =
       IF outcome = "rejected" THEN unhandledRejections + 1 ELSE unhandledRejections
  /\ IF ResponseOk(outcome)
     THEN /\ conversationId' = nextConvId
          /\ conversationClientId' = cid
          /\ storage' = Persist(cid, storage)
          /\ storageWrites' = PersistCalls(cid, storageWrites)
          /\ ServerCreate(cid)
          /\ lastContext' = ResetContext(lastContext)
          /\ chats' = IF chat # 0
                      THEN [chats EXCEPT ![chat] = clearMessages(@)]
                      ELSE chats
     ELSE /\ cid = Null
          /\ UNCHANGED <<conversationId, conversationClientId, storageVars,
                         serverVars, lastContext, chats>>
  /\ UNCHANGED <<optionVars, initVars, lastConversationClientId, pendingOpen,
                 chat, pendingOpenUses, sendVars, newConvClicks, newConvReplies,
                 sanitizerVars,
                 hostVars>>

\* --------------------------------------------------------- specification
Next ==
  \/ \E ok \in BOOLEAN : ListingResponse(ok)
  \/ \E ok \in BOOLEAN, cid \in NewClientIds : CreateResponse(ok, cid)
  \/ \E ok \in BOOLEAN, messages \in Histories : HistoryResponse(ok, messages)
  \/ ButtonClick
  \/ \E c \in 1..Len(chats) : CloseClick(c)
  \/ OutsideClick
  \/ \E c \in 1..Len(chats), text \in TextareaValues, page \in PageTexts :
       Submit(c, text, page)
  \/ \E i \in 1..Len(sends), outcome \in SendOutcomes : SendResponse(i, outcome)
  \/ \E c \in 1..Len(chats) : NewConversationClick(c)
  \/ \E outcome \in FetchOutcomes, cid \in NewClientIds :
       NewConversationResponse(outcome, cid)

Spec == Init /\ [][Next]_vars

\* ------------------------------------------------- sanitizeHtml on its own
\* the tags and attribute sets of the elements the html may hold
HtmlTags == {"p", "img", "b", "script", "span"}
HtmlAttrSets == {{}, {"style"}, {"src", "onclick"}}

InitSanitize ==
  /\ WidgetInit
  /\ hostOnSend = FALSE
  /\ storage = Null
  /\ remote = <<>>
  /\ ~audioAnswers
  /\ ~autoOpen
  /\ dom = EmptyFragment
  /\ clean = <<>>
  /\ plain = <<>>
  /\ formatted = <<>>

\* temp.innerHTML = html: the parser adds one more element to temp
ParseElement(path, tag, attrs) ==
  /\ clean = <<>>
  /\ Size(dom) <= MaxNodes
  /\ path \in Paths(dom)
  /\ dom' = AppendAt(dom, path, Element(tag, attrs, <<>>))
  /\ UNCHANGED <<clean, formatVars, widgetVars>>

\* this.cleanElement(temp, ...); return temp.innerHTML
Sanitize ==
  /\ clean = <<>>
  /\ clean' = <<sanitizeHtml(dom)>>
  /\ UNCHANGED <<dom, formatVars, widgetVars>>

NextSanitize ==
  \/ \E path \in Paths(dom), tag \in HtmlTags, attrs \in HtmlAttrSets :
       ParseElement(path, tag, attrs)
  \/ Sanitize

SpecSanitize == InitSanitize /\ [][NextSanitize]_vars

\* ------------------------------- sanitizeText and formatText on their own
\* the pieces a plain message is made of: a URL scheme, a letter, a space, an
\* angle bracket, a double quote and the title marker
UrlScheme == "http://"
TitleMark == "**"
FormatChars == {UrlScheme, "a", " ", "<", "\"", TitleMark}

\* div.textContent = text; return div.innerHTML: the serialization of a text
\* node escapes &, < and >, and leaves quotes as they are
sanitizeText(text) ==
  [k \in 1..Len(text) |->
     IF text[k] = "&" THEN "&amp;"
     ELSE IF text[k] = "<" THEN "&lt;"
     ELSE IF text[k] = ">" THEN "&gt;"
     ELSE IF text[k] = "<p>" THEN "&lt;p&gt;"
     ELSE IF text[k] = "<br>" THEN "&lt;br&gt;"
     ELSE IF text[k] = "<img" THEN "&lt;img"
     ELSE text[k]]

AnchorOpen == "<a href=\""
AnchorMid == "\" target=\"_blank\" rel=\"noopener noreferrer\">"
AnchorClose == "</a>"
SpanOpen == "<span class=\"ia-title\">"
SpanClose == "</span>"

\* the length of the longest prefix of s without whitespace: [^\s]+
RECURSIVE NonSpacePrefix(_)
NonSpacePrefix(s) ==
  IF s = <<>> \/ s[1] \in Whitespace THEN 0 ELSE 1 + NonSpacePrefix(Tail(s))

\* text.replace(/(https?:\/\/[^\s]+)/g, '<a href="$1" ...>$1</a>')
RECURSIVE ReplaceUrls(_)
ReplaceUrls(s) ==
  IF s = <<>> THEN <<>>
  ELSE IF s[1] = UrlScheme /\ NonSpacePrefix(Tail(s)) > 0
       THEN LET n == 1 + NonSpacePrefix(Tail(s))
                url == SubSeq(s, 1, n)
            IN  <<AnchorOpen>> \o url \o <<AnchorMid>> \o url \o <<AnchorClose>>
                  \o ReplaceUrls(SubSeq(s, n + 1, Len(s)))
       ELSE <<s[1]>> \o ReplaceUrls(Tail(s))

\* formatted.replace(/\*\*(.*?)\*\*/g, '<span class="ia-title">$1</span>')
RECURSIVE ReplaceTitles(_)
ReplaceTitles(s) ==
  IF s = <<>> THEN <<>>
  ELSE IF s[1] # TitleMark THEN <<s[1]>> \o ReplaceTitles(Tail(s))
  ELSE LET ends == {j \in 2..Len(s) :
                      /\ s[j] = TitleMark
                      /\ \A k \in 2..(j - 1) : s[k] # "\n"}
       IN  IF ends = {}
           THEN <<s[1]>> \o ReplaceTitles(Tail(s))
           ELSE LET j == CHOOSE e \in ends : \A f \in ends : e <= f
                IN  <<SpanOpen>> \o SubSeq(s, 2, j - 1) \o <<SpanClose>>
                      \o ReplaceTitles(SubSeq(s, j + 1, Len(s)))

\* Chat.formatText; no text of FormatChars holds a line that starts with "-",
\* so the two list replacements leave the text as it is
formatText(text) == ReplaceTitles(ReplaceUrls(text))

InitFormat == InitSanitize

\* one more piece of the text of the message
TypeText(piece) ==
  /\ formatted = <<>>
  /\ Len(plain) < MaxPlainLen
  /\ plain' = Append(plain, piece)
  /\ UNCHANGED <<formatted, dom, clean, widgetVars>>

\* addMessage(text, sender) of a plain message: sanitizeText, then formatText
FormatMessage ==
  /\ formatted = <<>>
  /\ formatted' = <<formatText(sanitizeText(plain))>>
  /\ UNCHANGED <<plain, dom, clean, widgetVars>>

NextFormat ==
  \/ \E piece \in FormatChars : TypeText(piece)
  \/ FormatMessage

SpecFormat == InitFormat /\ [][NextFormat]_vars

\* --------------------------------- the widget driven by its host application
\* the host may have put an onSend function into the options; createAssistant
\* copies the options it knows into chatOptions, onSend is not one of them, and
\* both chats are built with an onSend of their own
InitHost ==
  /\ WidgetInit
  /\ ~audioAnswers
  /\ hostOnSend \in BOOLEAN
  /\ dom = EmptyFragment
  /\ clean = <<>>
  /\ plain = <<>>
  /\ formatted = <<>>

\* the method of Chat a method of the returned object calls
ChatMethod(method, ch) ==
  IF method = "open" THEN open(ch)
  ELSE IF method = "close" THEN close(ch)
  ELSE IF method = "toggle" THEN toggle(ch)
  ELSE unmount(ch)

\* a method of the returned object: chat && chat.method(), and
\* button.unmount() when the method is unmount
AssistantCall(method) ==
  /\ Len(apiCalls) < MaxApiCalls
  /\ apiCalls' = Append(apiCalls, method)
  /\ buttonMounted' = (buttonMounted /\ method # "unmount")
  /\ UNCHANGED reloadedFrom
  /\ chats' = IF chat # 0 THEN [chats EXCEPT ![chat] = ChatMethod(method, @)] ELSE chats
  /\ UNCHANGED <<storageVars, serverVars, optionVars, initVars, closureVars,
                 pendingOpenUses, sendVars, newConvVars, sanitizerVars>>

\* open: () => chat && chat.open()
AssistantOpen == AssistantCall("open")

\* close: () => chat && chat.close()
AssistantClose == AssistantCall("close")

\* toggle: () => chat && chat.toggle()
AssistantToggle == AssistantCall("toggle")

\* unmount: () => { chat && chat.unmount(); button.unmount(); }
AssistantUnmount == AssistantCall("unmount")

\* isOpen: () => !!(chat && chat["isOpen"])
AssistantIsOpen == chat # 0 /\ chats[chat].isOpen

NextHost ==
  \/ \E ok \in BOOLEAN : ListingResponse(ok)
  \/ \E ok \in BOOLEAN, cid \in NewClientIds : CreateResponse(ok, cid)
  \/ \E ok \in BOOLEAN, messages \in Histories : HistoryResponse(ok, messages)
  \/ ButtonClick
  \/ AssistantOpen
  \/ AssistantClose
  \/ AssistantToggle
  \/ \E c \in 1..Len(chats), text \in TextareaValues, page \in PageTexts :
       SubmitUpTo(MaxHostSends, c, text, page)
  \/ \E i \in 1..Len(sends), outcome \in SendOutcomes : SendResponse(i, outcome)

SpecHost == InitHost /\ [][NextHost]_vars

\* ------------------------------------ the answers of the remote service
\* what an assistant message may hold as content: text, text with one of the
\* markers onSend looks for, text that spells an audio_url field
ClassifiedContents ==
  {<<"hello">>, <<"<p>", "hello">>, <<"<br>">>, <<"<img", "hello">>,
   <<AudioUrlKey, "x.mp3">>}

ClassifiedOutcomes ==
  {SendOutcome("fail", Undefined, Null), SendOutcome("none", Undefined, Null)} \cup
  {SendOutcome("message", c, u) : c \in ClassifiedContents, u \in AudioUrls \cup {Null}}

NextClassify ==
  \/ \E ok \in BOOLEAN : ListingResponse(ok)
  \/ \E ok \in BOOLEAN, cid \in NewClientIds : CreateResponse(ok, cid)
  \/ \E ok \in BOOLEAN, messages \in Histories : HistoryResponse(ok, messages)
  \/ ButtonClick
  \/ \E c \in 1..Len(chats), text \in TextareaValues, page \in PageTexts :
       SubmitUpTo(MaxHostSends, c, text, page)
  \/ \E i \in 1..Len(sends), outcome \in ClassifiedOutcomes : SendResponse(i, outcome)

SpecClassify == Init /\ [][NextClassify]_vars

\* ------------------------------------------ what the history is made of
\* what the user may type: a letter, a text with a marker of onSend, a URL
\* followed by a double quote
RenderTexts == {<<"a">>, <<"<p>", "a">>, <<UrlScheme, "a", "\"">>}

\* what GET /conversation/{id} may return: a user message with a marker, an
\* assistant message with a marker, an assistant message with audio
RenderHistories ==
  SeqsUpTo({HistoryMessage(<<"<p>", "hello">>, "user", Null),
            HistoryMessage(<<"<br>">>, "assistant", Null),
            HistoryMessage(<<"hello">>, "assistant", "u.mp3")}, MaxHistory)

NextRender ==
  \/ \E ok \in BOOLEAN : ListingResponse(ok)
  \/ \E ok \in BOOLEAN, cid \in NewClientIds : CreateResponse(ok, cid)
  \/ \E ok \in BOOLEAN, messages \in RenderHistories : HistoryResponse(ok, messages)
  \/ ButtonClick
  \/ \E c \in 1..Len(chats), text \in RenderTexts, page \in PageTexts :
       SubmitUpTo(MaxHostSends, c, text, page)
  \/ \E i \in 1..Len(sends), outcome \in ClassifiedOutcomes : SendResponse(i, outcome)

SpecRender == Init /\ [][NextRender]_vars

\* ----------------------------------- showing and hiding during the sends
\* every way of showing and hiding the chat (the floating button, the close
\* button, a click elsewhere on the page, the methods of the returned
\* object) next to one send
NextVisibility ==
  \/ \E ok \in BOOLEAN : ListingResponse(ok)
  \/ \E ok \in BOOLEAN, cid \in NewClientIds : CreateResponse(ok, cid)
  \/ \E ok \in BOOLEAN, messages \in Histories : HistoryResponse(ok, messages)
  \/ ButtonClick
  \/ \E c \in 1..Len(chats) : CloseClick(c)
  \/ OutsideClick
  \/ AssistantOpen
  \/ AssistantClose
  \/ AssistantToggle
  \/ \E c \in 1..Len(chats), text \in TextareaValues, page \in PageTexts :
       SubmitUpTo(MaxHostSends, c, text, page)
  \/ \E i \in 1..Len(sends), outcome \in SendOutcomes : SendResponse(i, outcome)

SpecVisibility == Init /\ [][NextVisibility]_vars

\* ------------------------------------------- initialization to its end
\* initConversationAndMountChat while the user clicks the floating button
\* and the host page opens, closes and toggles; every request the
\* initialization awaits is answered at some time, with a success or with a
\* failure: fetch resolves or rejects
NextInit ==
  \/ \E ok \in BOOLEAN : ListingResponse(ok)
  \/ \E ok \in BOOLEAN, cid \in NewClientIds : CreateResponse(ok, cid)
  \/ \E ok \in BOOLEAN, messages \in Histories : HistoryResponse(ok, messages)
  \/ ButtonClick
  \/ AssistantOpen
  \/ AssistantClose
  \/ AssistantToggle

SpecInit ==
  /\ Init
  /\ [][NextInit]_vars
  /\ WF_vars(\E ok \in BOOLEAN : ListingResponse(ok))
  /\ WF_vars(\E ok \in BOOLEAN, cid \in NewClientIds : CreateResponse(ok, cid))
  /\ WF_vars(\E ok \in BOOLEAN, messages \in Histories : HistoryResponse(ok, messages))

\* ------------------------------------- new conversations and page reload
\* the server handles a creation request of the new-conversation action: the
\* conversation exists from now on, its response is on its way
NewConversationHandled(cid) ==
  /\ Len(newConvReplies) < newConvPending
  /\ ServerCreate(cid)
  /\ newConvReplies' = Append(newConvReplies, Conversation(nextConvId, cid))
  /\ UNCHANGED <<storageVars, optionVars, initVars, closureVars, chats,
                 pendingOpenUses, sendVars, newConvClicks, newConvPending,
                 unhandledRejections, sanitizerVars,
                 hostVars>>

\* the continuation of the callback with response k of those on their way,
\* an ok response: responses arrive in any order
NewConversationReply(k) ==
  /\ k \in 1..Len(newConvReplies)
  /\ newConvPending' = newConvPending - 1
  /\ newConvReplies' = RemoveAt(newConvReplies, k)
  /\ conversationId' = newConvReplies[k].id
  /\ conversationClientId' = newConvReplies[k].client_id
  /\ storage' = Persist(newConvReplies[k].client_id, storage)
  /\ storageWrites' = PersistCalls(newConvReplies[k].client_id, storageWrites)
  /\ lastContext' = ResetContext(lastContext)
  /\ chats' = IF chat # 0
              THEN [chats EXCEPT ![chat] = clearMessages(@)]
              ELSE chats
  /\ UNCHANGED <<serverVars, optionVars, initVars, lastConversationClientId,
                 pendingOpen, chat, pendingOpenUses, sendVars, newConvClicks,
                 unhandledRejections, sanitizerVars,
                 hostVars>>

\* the page is reloaded once a session is established and no creation
\* request is in flight: localStorage and the server keep what they hold,
\* the script starts again and createAssistant reads the stored client id
Reload ==
  /\ reloadedFrom = NoConv
  /\ initPc = "done"
  /\ chats[chat].kind = "networked"
  /\ conversationId # NoConv
  /\ newConvPending = 0
  /\ reloadedFrom' = conversationId
  /\ initPc' = "listing"
  /\ storedClientId' = storage
  /\ conversations' = <<>>
  /\ useExisting' = FALSE
  /\ requests' = <<Request("list", "pending")>>
  /\ conversationId' = NoConv
  /\ conversationClientId' = Null
  /\ lastConversationClientId' = Null
  /\ pendingOpen' = FALSE
  /\ lastContext' = <<>>
  /\ chat' = 0
  /\ chats' = <<>>
  /\ pendingOpenUses' = 0
  /\ submits' = 0
  /\ sends' = <<>>
  /\ UNCHANGED <<storageVars, serverVars, optionVars, newConvVars, sanitizerVars,
                 apiCalls, buttonMounted>>

NextReload ==
  \/ \E ok \in BOOLEAN : ListingResponse(ok)
  \/ \E ok \in BOOLEAN, cid \in NewClientIds : CreateResponse(ok, cid)
  \/ \E ok \in BOOLEAN, messages \in Histories : HistoryResponse(ok, messages)
  \/ ButtonClick
  \/ \E c \in 1..Len(chats) :
       reloadedFrom = NoConv /\ NewConversationClickUpTo(MaxReloadNewConv, c)
  \/ \E cid \in NewClientIds : NewConversationHandled(cid)
  \/ \E k \in 1..Len(newConvReplies) : NewConversationReply(k)
  \/ Reload

SpecReload == Init /\ [][NextReload]_vars

\* ------------------------------------------- the life of one widget, to
\* its unmounting: the host page may call unmount() at any moment
NextUnmount ==
  \/ \E ok \in BOOLEAN : ListingResponse(ok)
  \/ \E ok \in BOOLEAN, cid \in NewClientIds : CreateResponse(ok, cid)
  \/ \E ok \in BOOLEAN, messages \in Histories : HistoryResponse(ok, messages)
  \/ ButtonClick
  \/ AssistantUnmount
  \/ \E c \in 1..Len(chats), text \in TextareaValues, page \in PageTexts :
       SubmitUpTo(MaxHostSends, c, text, page)
  \/ \E i \in 1..Len(sends), outcome \in SendOutcomes : SendResponse(i, outcome)
  \/ \E c \in 1..Len(chats) : NewConversationClick(c)
  \/ \E outcome \in FetchOutcomes, cid \in NewClientIds :
       NewConversationResponse(outcome, cid)

SpecUnmount == Init /\ [][NextUnmount]_vars

\* ------------------------------------- the send cycle of one open widget
\* a first visit (nothing stored, nothing on the server), audio answers off,
\* the chat shown on startup; the panel stays open
InitContext ==
  /\ Init
  /\ storage = Null
  /\ remote = <<>>
  /\ ~audioAnswers
  /\ autoOpen

NextContext ==
  \/ \E ok \in BOOLEAN : ListingResponse(ok)
  \/ \E ok \in BOOLEAN, cid \in NewClientIds : CreateResponse(ok, cid)
  \/ \E c \in 1..Len(chats), text \in TextareaValues, page \in PageTexts :
       SubmitUpTo(MaxContextSends, c, text, page)
  \/ \E i \in 1..Len(sends), outcome \in SendOutcomes : SendResponse(i, outcome)
  \/ \E c \in 1..Len(chats) : NewConversationClick(c)
  \/ \E outcome \in FetchOutcomes, cid \in NewClientIds :
       NewConversationResponse(outcome, cid)

SpecContext == InitContext /\ [][NextContext]_vars

\* ------------------------------------------------------------------ claims
\* the messages of a message list, without the typing indicators
History(list) == SelectSeq(list, LAMBDA m : m # TypingIndicator)
Answers(list) == SelectSeq(list, LAMBDA m : m.cls \in {"assistant", "error"})
UserMessages(list) == SelectSeq(list, LAMBDA m : m.cls = "user")

\* the outcome of session resolution: resumed when the existing conversation
\* is used, created when the try block mounted the chat after a creation,
\* unavailable when the catch block mounted the emergency chat instead
Mode ==
  IF initPc \in {"listing", "creating"} THEN "resolving"
  ELSE IF useExisting THEN "resumed"
  ELSE IF chats[1].kind = "networked" THEN "created"
  ELSE "unavailable"

\* C1: when the response of a send arrives after a new-conversation action
\* has replaced the conversation the send was dispatched under, it is
\* discarded: the history of the chat is left as it was.
C1_StaleResponseDiscarded ==
  [][\A i \in 1..Len(sends) :
       (/\ sends[i].status = "pending"
        /\ sends'[i].status # "pending"
        /\ sends[i].conv # conversationId)
       => History(chats'[sends[i].chat].messageList)
            = History(chats[sends[i].chat].messageList)]_vars

\* C2: with a non-empty listing, resolution resumes the first conversation
\* without a creation request exactly when a client id is stored and equals
\* the first entry's; otherwise it issues exactly one creation request and,
\* when that succeeds, the mode is created with the id the server returned.
C2_ResolutionOfNonEmptyList ==
  (Len(conversations) > 0 /\ newConvClicks = 0) =>
    IF storedClientId # Null /\ storedClientId = conversations[1].client_id
    THEN /\ Mode = "resumed"
         /\ conversationId = conversations[1].id
         /\ Issued("create") = 0
    ELSE /\ Issued("create") = 1
         /\ Succeeded("create") =>
              /\ Mode = "created"
              /\ conversationId = remote[1].id
              /\ conversationId # conversations[1].id
         /\ ~Succeeded("create") => Mode \in {"resolving", "unavailable"}

C2_CreatedAfterMismatch ==
  /\ initPc = "done"
  /\ newConvClicks = 0
  /\ Len(conversations) > 0
  /\ storedClientId = "A"
  /\ conversations[1].client_id = "B"
  /\ Mode = "created"
  /\ Issued("create") = 1
  /\ conversationId = remote[1].id

\* C3: of two consecutive sends of one conversation, the later carries the
\* empty context when its normalized context equals the earlier one's, and
\* its normalized context when the two differ.
C3_ContextDeduplicated ==
  \A i \in 2..Len(sends) :
    sends[i].conv = sends[i - 1].conv =>
      sends[i].context =
        IF sends[i].norm = sends[i - 1].norm THEN <<>> ELSE sends[i].norm

\* C4: the output of sanitizeHtml holds, at every depth, only elements with
\* an allow-listed tag and only attributes of that tag's allow-list.
C4_Tags == {"img", "br", "p", "strong", "em", "b", "i"}
C4_Attributes(tag) ==
  IF tag = "img" THEN {"src", "alt", "style", "width", "height"}
  ELSE IF tag = "p" THEN {"style"}
  ELSE {}
C4_SanitizedOutputAllowed ==
  \A k \in 1..Len(clean) :
    \A e \in Descendants(clean[k]) :
      e.tag \in C4_Tags /\ e.attrs \subseteq C4_Attributes(e.tag)

C4_NestedInputSanitized ==
  /\ clean # <<>>
  /\ Descendants(clean[1]) # {}
  /\ \E e \in Descendants(dom) :
       /\ e.tag = "p"
       /\ "onclick" \in e.attrs
       /\ \E i \in 1..Len(e.children) : e.children[i].tag = "script"

\* C5: when the response of a send arrives, whatever its outcome and whether
\* or not audio answers are enabled, exactly one assistant or error message
\* is appended to the chat that sent it.
C5_ResponseAppendsOneMessage ==
  [][\A i \in 1..Len(sends) :
       (sends[i].status = "pending" /\ sends'[i].status # "pending")
       => Len(Answers(chats'[sends[i].chat].messageList))
            = Len(Answers(chats[sends[i].chat].messageList)) + 1]_vars

\* C6: a failed listing or creation request makes resolution fail: the
\* emergency chat is mounted, and after a failed listing no creation request
\* is issued and no conversation becomes active.
C6_FailedRequestDegrades ==
  /\ Failed("list") =>
       /\ Mode = "unavailable"
       /\ Issued("create") = 0
       /\ conversationId = NoConv
  /\ Failed("create") => Mode = "unavailable"

\* C7: every submit accepted by the emergency chat issues no request and is
\* answered, in the history, with the fixed unavailability message.
C7_DegradedSubmitAnswered ==
  [][\A c \in 1..Len(chats) :
       (/\ chats[c].kind = "emergency"
        /\ Len(UserMessages(chats'[c].messageList))
             > Len(UserMessages(chats[c].messageList)))
       => /\ sends' = sends
          /\ History(chats'[c].messageList)
               = History(chats[c].messageList)
                   \o <<Message("user", "plain", <<"a">>),
                        Message("assistant", "plain", UnavailableText)>>]_vars

\* C8: a pending open is consumed by the step that ends initialization, which
\* leaves the chat open and the flag cleared; the flag is consumed at most
\* once, only by that step, and is false once initialization has ended.
C8_PendingOpenConsumedOnce ==
  [][/\ (pendingOpen /\ initPc # "done" /\ initPc' = "done")
          => (chats'[chat'].isOpen /\ ~pendingOpen')
     /\ (pendingOpen /\ ~pendingOpen')
          => (initPc # "done" /\ initPc' = "done"
              /\ pendingOpenUses' = pendingOpenUses + 1)
     /\ initPc' = "done" => ~pendingOpen'
     /\ pendingOpenUses' <= 1]_vars

C8_OpenedByPendingOpen ==
  /\ initPc = "done"
  /\ pendingOpenUses = 1
  /\ ~autoOpen
  /\ chats[chat].isOpen
  /\ ~pendingOpen

\* C9: a successful new-conversation action makes the id the server returned
\* the active one, persists the returned client id, empties the history and
\* resets lastContext; the first send of every conversation carries its full
\* normalized context.
C9_FirstSendCarriesContext ==
  \A i \in 1..Len(sends) :
    (\A j \in 1..(i - 1) : sends[j].conv # sends[i].conv)
      => sends[i].context = sends[i].norm
C10_FirstVisitCreates ==
  (Succeeded("list") /\ conversations = <<>> /\ storedClientId = Null) =>
    /\ Issued("create") = 1
    /\ Issued("history") = 0
    /\ (Succeeded("create") /\ newConvClicks = 0) => storage = remote[1].client_id

C10_FirstVisitPersisted ==
  /\ Succeeded("list")
  /\ conversations = <<>>
  /\ storedClientId = Null
  /\ initPc = "done"
  /\ Succeeded("create")
  /\ newConvClicks = 0
  /\ storage = "B"

\* C11: a submit whose text is empty after trimming changes nothing: the
\* text stays in the textarea, no user message is appended, no typing
\* indicator is shown, no request is sent and lastContext is unchanged; what
\* a submit appends or sends is never blank.
C11_Blank(text) == \A k \in 1..Len(text) : text[k] \in {" ", "\n"}
C11_BlankSubmitChangesNothing ==
  [][/\ \A c \in 1..Len(chats) :
          /\ (chats'[c].textarea # chats[c].textarea /\ chats'[c].textarea # <<>>)
               => /\ C11_Blank(chats'[c].textarea)
                  /\ chats'[c].messageList = chats[c].messageList
                  /\ sends' = sends
                  /\ lastContext' = lastContext
                  /\ submits' = submits
          /\ \A k \in 1..Len(chats'[c].messageList) :
               chats'[c].messageList[k].cls = "user"
                 => ~C11_Blank(chats'[c].messageList[k].text)
     /\ \A i \in 1..Len(sends') : ~C11_Blank(sends'[i].content)]_vars

C11_BlankTextLeftInTextarea ==
  /\ initPc = "done"
  /\ chat = 1
  /\ chats[1].kind = "networked"
  /\ chats[1].textarea = <<" ", "\n">>
  /\ chats[1].messageList = <<Message("assistant", "plain", DefaultInitialMessage)>>
  /\ sends = <<>>
  /\ conversationId # NoConv

\* C12: when the text of a plain message holds one bare http(s) URL, its
\* formatted output holds exactly one anchor, that anchor wraps the URL (its
\* href value and its text are the URL), and no "<" or ">" of the text is
\* left unescaped.
C12_UrlStarts(text) ==
  {k \in 1..Len(text) : text[k] = "http://" /\ k < Len(text) /\ text[k + 1] # " "}
C12_FormattedUrlIsOneAnchor ==
  (formatted # <<>> /\ Cardinality(C12_UrlStarts(plain)) = 1) =>
    LET out == formatted[1]
        k == CHOOSE u \in C12_UrlStarts(plain) : TRUE
        stop == IF \E e \in k..Len(plain) : plain[e] = " "
                THEN (CHOOSE e \in k..Len(plain) :
                        plain[e] = " " /\ \A f \in k..(e - 1) : plain[f] # " ") - 1
                ELSE Len(plain)
        url == sanitizeText(SubSeq(plain, k, stop))
    IN  /\ Cardinality({i \in 1..Len(out) : out[i] = "<a href=\""}) = 1
        /\ \E i \in 1..(Len(out) - 2 * Len(url) - 2) :
             SubSeq(out, i, i + 2 * Len(url) + 2)
               = <<"<a href=\"">> \o url
                   \o <<"\" target=\"_blank\" rel=\"noopener noreferrer\">">>
                   \o url \o <<"</a>">>
        /\ \A i \in 1..Len(url) : url[i] # "\""
        /\ \A i \in 1..Len(out) : out[i] \notin {"<", ">"}

\* C13: once session resolution has succeeded, resumed or created, the
\* client id has been written to persistent storage exactly once, whatever
\* client id the server returned.
C13_ClientIdWrittenOnce ==
  (initPc \in {"history", "done"} /\ Mode \in {"resumed", "created"}
     /\ newConvClicks = 0)
    => storageWrites = 1

\* C14: whenever a send with a non-empty normalized page context carries the
\* empty context, an earlier request of the same conversation carried that
\* context and was not a failed request: the server holds the latest context.
C14_ServerHoldsLatestContext ==
  \A i \in 1..Len(sends) :
    (sends[i].context = <<>> /\ sends[i].norm # <<>>) =>
      \E j \in 1..(i - 1) :
        /\ sends[j].conv = sends[i].conv
        /\ sends[j].context = sends[i].norm
        /\ sends[j].status # "failed"

\* C15: every send, whatever its normalized context, the empty one included,
\* follows the contract of the deduplicator: when the normalized context
\* equals lastContext the request carries the empty context and lastContext
\* is unchanged; otherwise the request carries the normalized context and
\* lastContext becomes the normalized context.
C15_DeduplicatorContract ==
  [][Len(sends') > Len(sends) =>
       LET request == sends'[Len(sends')]
       IN  IF request.norm = lastContext
           THEN request.context = <<>> /\ lastContext' = lastContext
           ELSE request.context = request.norm /\ lastContext' = request.norm]_vars

C17_NoUnhandledRejection == unhandledRejections = 0

\* C18: a call of open() leaves isOpen() true, a call of close() leaves it
\* false and a call of toggle() inverts it, whenever the call is made, also
\* while the session is still resolving.
C18_MethodsSetIsOpen ==
  [][Len(apiCalls') > Len(apiCalls) =>
       LET method == apiCalls'[Len(apiCalls')]
       IN  /\ method = "open" => AssistantIsOpen'
           /\ method = "close" => ~AssistantIsOpen'
           /\ method = "toggle" => (AssistantIsOpen' <=> ~AssistantIsOpen)]_vars

\* C19: when the options hold an onSend function of the host, no submit
\* issues a request to the remote message endpoint, and no chat answers with
\* the widget's own unavailability text.
C19_HostOnSendReplacesService ==
  hostOnSend =>
    /\ sends = <<>>
    /\ \A c \in 1..Len(chats) :
         \A k \in 1..Len(chats[c].messageList) :
           chats[c].messageList[k].text # UnavailableText

\* C20: when the listing is not empty and its first entry carries no client
\* id, that conversation is never resumed, whether or not a client id is
\* stored: one creation request is issued and, when it succeeds, the
\* conversation the server created is the active one.
C20_LegacyEntryNeverResumed ==
  (Len(conversations) > 0 /\ conversations[1].client_id = Null) =>
    /\ ~useExisting
    /\ Mode # "resumed"
    /\ Issued("create") = 1
    /\ Issued("history") = 0
    /\ (Succeeded("create") /\ newConvClicks = 0) =>
         /\ conversationId = remote[1].id
         /\ conversationId # conversations[1].id

C20_CreatedDespiteStoredId ==
  /\ initPc = "done"
  /\ newConvClicks = 0
  /\ Len(conversations) > 0
  /\ conversations[1].client_id = Null
  /\ storedClientId = "A"
  /\ Mode = "created"
  /\ conversationId = 2
  /\ Len(remote) = 2

\* ---------------------------------------------------------------- C21
\* C21: the persisted clientId is written only by the session resolution
\* (the continuation of the listing or of the creation request of the
\* initialization) and by the new-conversation action (the continuation of
\* its creation request), and what they write is the client id of the
\* conversation they settled on; every other step (a submit, a response, the
\* history replay, a click on the button, unmount()) leaves the entry and the
\* number of writes as they were
C21_WrittenOnlyByResolutionAndNewConversation ==
  [][(storage' # storage \/ storageWrites' # storageWrites) =>
       /\ \/ initPc \in {"listing", "creating"} /\ initPc' # initPc
          \/ newConvPending' < newConvPending
       /\ storageWrites' = storageWrites + 1
       /\ storage' # Null
       /\ \E r \in 1..Len(remote') :
            remote'[r].id = conversationId' /\ remote'[r].client_id = storage']_vars

\* C21 witness: the creation request of a first visit wrote the id once; a
\* message was then sent and answered, the panel was closed by the button
\* and the widget unmounted, and the entry is still that one write
C21_KeptThroughSendAndUnmount ==
  /\ initPc = "done"
  /\ storedClientId = Null
  /\ storage = "B"
  /\ storageWrites = 1
  /\ Len(sends) = 1
  /\ sends[1].status = "ok"
  /\ apiCalls = <<"unmount">>
  /\ chat # 0
  /\ ~chats[chat].mounted
  /\ ~chats[chat].isOpen

\* ---------------------------------------------------------------- C22
\* C22: when a response holding an assistant message arrives, one message is
\* appended to the chat that sent, rendered as audio if audio answers are
\* enabled and the payload carries an audio URL, otherwise as HTML if its
\* content contains <img, <p> or <br>, otherwise as plain text; with audio
\* answers disabled no message of the history is rendered as audio
C22_ClassificationPrecedence ==
  [][/\ \A i \in 1..Len(sends), outcome \in ClassifiedOutcomes :
          (outcome.kind = "message" /\ SendResponse(i, outcome)) =>
            LET before == History(chats[sends[i].chat].messageList)
                after == History(chats'[sends[i].chat].messageList)
            IN  /\ Len(after) = Len(before) + 1
                /\ after[Len(after)].cls = "assistant"
                /\ after[Len(after)].kind =
                     IF audioAnswers /\ outcome.audio_url # Null THEN "audio"
                     ELSE IF ContainsHtml(outcome.content) THEN "html"
                     ELSE "plain"
     /\ ~audioAnswers =>
          \A c \in 1..Len(chats') : \A k \in 1..Len(chats'[c].messageList) :
            chats'[c].messageList[k].kind # "audio"]_vars

\* ---------------------------------------------------------------- C23
\* the elements below the given children, in document order, each with its
\* depth and tag: all of them, and those whose own tag and whose ancestors'
\* tags are all allow-listed
RECURSIVE C23_Elements(_, _), C23_AllowedChains(_, _)
C23_Elements(children, depth) ==
  IF children = <<>> THEN <<>>
  ELSE <<<<depth, children[1].tag>>>>
         \o C23_Elements(children[1].children, depth + 1)
         \o C23_Elements(Tail(children), depth)
C23_AllowedChains(children, depth) ==
  IF children = <<>> THEN <<>>
  ELSE (IF children[1].tag \in {"img", "br", "p", "strong", "em", "b", "i"}
        THEN <<<<depth, children[1].tag>>>>
               \o C23_AllowedChains(children[1].children, depth + 1)
        ELSE <<>>)
       \o C23_AllowedChains(Tail(children), depth)

\* C23: the elements of the output of sanitizeHtml are exactly the elements
\* of the input whose own tag and all of whose ancestors' tags are
\* allow-listed, in the same order and at the same depth: a disallowed
\* element is removed with its whole subtree, an allowed element under
\* allowed ancestors is preserved
C23_KeptIffChainAllowed ==
  clean # <<>> =>
    C23_Elements(clean[1].children, 1) = C23_AllowedChains(dom.children, 1)

\* C23 witness: the input is <p><span><b></b></span></p>; the output
\* keeps the p and nothing else, the allowed b went with the span
C23_AllowedUnderDisallowedRemoved ==
  /\ clean # <<>>
  /\ Len(dom.children) = 1
  /\ dom.children[1].tag = "p"
  /\ Len(dom.children[1].children) = 1
  /\ dom.children[1].children[1].tag = "span"
  /\ Len(dom.children[1].children[1].children) = 1
  /\ dom.children[1].children[1].children[1].tag = "b"
  /\ Len(clean[1].children) = 1
  /\ clean[1].children[1].tag = "p"
  /\ clean[1].children[1].children = <<>>

\* ---------------------------------------------------------------- C24
\* C24: every message of a rendered history went through the audio branch,
\* the HTML sanitizer or the plain path; a message of the user, typed or
\* replayed, went through the plain path whatever markers it holds; and what
\* the plain path puts into the markup holds no text of the message as
\* markup: no unescaped angle bracket or tag, and no double quote of the text
\* inside the href attribute of an anchor
C24_NoRawTextInHistory ==
  \A c \in 1..Len(chats) : \A k \in 1..Len(chats[c].messageList) :
    LET m == chats[c].messageList[k]
    IN  m # TypingIndicator =>
          /\ m.kind \in {"audio", "html", "plain"}
          /\ m.cls = "user" => m.kind = "plain"
          /\ m.kind = "plain" =>
               LET out == formatText(sanitizeText(m.text))
               IN  /\ \A i \in 1..Len(out) : out[i] \notin {"<", ">"} \cup HtmlMarkers
                   /\ \A i \in 1..Len(out) : \A j \in (i + 1)..Len(out) :
                        (out[i] = AnchorOpen /\ out[j] = "\"") =>
                          \E l \in (i + 1)..(j - 1) : out[l] = AnchorMid

\* ---------------------------------------------------------------- C25
\* C25: once resolution has settled, one history request has been issued if
\* the mode is resumed and none otherwise; the request is issued for the
\* listed conversation the session resumed; and when its answer arrives, one
\* message per message of the answer is appended to the chat, in the order
\* of the answer, each with the sender of its message
C25_HistoryIffResumed ==
  [][/\ initPc' \in {"history", "done"} =>
          Cardinality({r \in 1..Len(requests') : requests'[r].endpoint = "history"})
            = IF useExisting' THEN 1 ELSE 0
     /\ (initPc # "history" /\ initPc' = "history") =>
          /\ useExisting'
          /\ conversationId' = remote[1].id
     /\ \A messages \in RenderHistories :
          (initPc = "history" /\ HistoryResponse(TRUE, messages)) =>
            LET before == History(chats[chat].messageList)
                after == History(chats'[chat].messageList)
            IN  /\ Len(after) = Len(before) + Len(messages)
                /\ \A k \in 1..Len(messages) :
                     /\ after[Len(before) + k].cls =
                          IF messages[k].sender = "user" THEN "user" ELSE "assistant"
                     /\ after[Len(before) + k].text =
                          IF after[Len(before) + k].kind = "audio"
                          THEN <<messages[k].audio_url>>
                          ELSE messages[k].content]_vars

\* ---------------------------------------------------------------- C26
\* C26: in every step the history of every chat either keeps the messages it
\* held, in place and in order, possibly with more after them, or is emptied
\* by a step that is the successful end of a new-conversation action (its
\* creation request is answered and another conversation becomes active)
C26_HistoryAppendOnly ==
  [][\A c \in 1..Len(chats) :
       LET before == History(chats[c].messageList)
           after == History(chats'[c].messageList)
       IN  \/ /\ Len(before) <= Len(after)
              /\ SubSeq(after, 1, Len(before)) = before
           \/ /\ after = <<>>
              /\ newConvPending' < newConvPending
              /\ conversationId' # conversationId]_vars

\* C26 witness: a message was sent and answered in the created
\* conversation, then a new-conversation action succeeded and the history of
\* the chat is empty
C26_EmptiedByNewConversation ==
  /\ initPc = "done"
  /\ ~audioAnswers
  /\ Len(sends) = 1
  /\ sends[1].status = "ok"
  /\ sends[1].conv # conversationId
  /\ newConvClicks = 1
  /\ newConvPending = 0
  /\ chats[chat].kind = "networked"
  /\ chats[chat].messageList = <<>>

\* ---------------------------------------------------------------- C27
\* C27: on every chat, toggle inverts isOpen and two toggles restore the
\* chat; open leaves the chat open and close leaves it closed, each changing
\* nothing when applied again; a call of open(), close() or toggle() on the
\* mounted widget has that effect on its chat; and a click on the document
\* changes isOpen of a chat exactly when the chat is open and the target is
\* neither inside its panel nor the floating button: a click outside closes
\* every open chat and opens none, a click on the floating button toggles
\* the chat of the widget and leaves every other chat as it was
C27_VisibilityAlgebra ==
  [][/\ \A c \in 1..Len(chats) :
          LET ch == chats[c]
          IN  /\ toggle(ch).isOpen = ~ch.isOpen
              /\ toggle(toggle(ch)) = ch
              /\ open(ch).isOpen /\ open(open(ch)) = open(ch)
              /\ ~close(ch).isOpen /\ close(close(ch)) = close(ch)
              /\ \A inside \in 0..Len(chats) :
                   (DocumentClick(chats, inside)[c].isOpen # ch.isOpen)
                     <=> (ch.isOpen /\ c # inside)
     /\ (Len(apiCalls') > Len(apiCalls) /\ chat # 0) =>
          LET method == apiCalls'[Len(apiCalls')]
          IN  /\ method = "open" => chats'[chat] = open(chats[chat])
              /\ method = "close" => chats'[chat] = close(chats[chat])
              /\ method = "toggle" => chats'[chat] = toggle(chats[chat])
              /\ chats'[chat].isOpen =
                   IF method = "open" THEN TRUE
                   ELSE IF method = "close" THEN FALSE
                   ELSE ~chats[chat].isOpen
     /\ OutsideClick => \A c \in 1..Len(chats) : ~chats'[c].isOpen
     /\ ButtonClick =>
          \A c \in 1..Len(chats) :
            chats'[c].isOpen = IF c = chat THEN ~chats[c].isOpen ELSE chats[c].isOpen]_vars

\* C27 witness: open() was called twice on the mounted chat of a widget
\* that starts closed, and the chat is open
C27_OpenedTwice ==
  /\ initPc = "done"
  /\ ~autoOpen
  /\ pendingOpenUses = 0
  /\ apiCalls = <<"open", "open">>
  /\ chat # 0
  /\ chats[chat].isOpen

\* ---------------------------------------------------------------- C28
\* C28: a step that shows or hides a mounted chat (a click on the floating
\* button, on the close button or elsewhere on the page, a call of open(),
\* close() or toggle()) leaves the active conversation, lastContext, the
\* persisted client id, every message list and the sends, outstanding or
\* answered, as they were; and when the response of an outstanding send
\* arrives while its chat is closed, the send completes, one answer is
\* appended to the chat and the chat stays closed
C28_VisibilityOrthogonalToSends ==
  [][/\ (\/ Len(apiCalls') > Len(apiCalls)
         \/ /\ initPc' = initPc
            /\ \E c \in 1..Len(chats) : chats'[c].isOpen # chats[c].isOpen) =>
          /\ conversationId' = conversationId
          /\ lastContext' = lastContext
          /\ storage' = storage
          /\ sends' = sends
          /\ submits' = submits
          /\ Len(chats') = Len(chats)
          /\ \A c \in 1..Len(chats) : chats'[c].messageList = chats[c].messageList
     /\ \A i \in 1..Len(sends) :
          (/\ sends[i].status = "pending"
           /\ sends'[i].status # "pending"
           /\ ~chats[sends[i].chat].isOpen) =>
            /\ ~chats'[sends[i].chat].isOpen
            /\ ~HasTyping(chats'[sends[i].chat].messageList)
            /\ Len(Answers(chats'[sends[i].chat].messageList))
                 = Len(Answers(chats[sends[i].chat].messageList)) + 1]_vars

\* ---------------------------------------------------------------- C29
\* C29: when the creation request of a new-conversation action is answered
\* with a status that is not a success, the active conversation, the
\* persisted client id, lastContext and every chat with its history are
\* left as they were
C29_FailedNewConversationChangesNothing ==
  [][(\E cid \in NewClientIds : NewConversationResponse("status", cid)) =>
       /\ conversationId' = conversationId
       /\ conversationClientId' = conversationClientId
       /\ storage' = storage
       /\ storageWrites' = storageWrites
       /\ lastContext' = lastContext
       /\ chats' = chats
       /\ sends' = sends]_vars

\* C29 witness: on a first visit a message was sent with the page as context
\* and answered, then the new-conversation action ended without a rejection
\* and without a conversation created on the server: the created
\* conversation is still active, its context and its history are still there
C29_KeptAfterFailedNewConversation ==
  /\ initPc = "done"
  /\ conversations = <<>>
  /\ ~audioAnswers
  /\ newConvClicks = 1
  /\ newConvPending = 0
  /\ unhandledRejections = 0
  /\ Len(remote) = 1
  /\ conversationId = remote[1].id
  /\ storage = "B"
  /\ Len(sends) = 1
  /\ sends[1].status = "ok"
  /\ lastContext # <<>>
  /\ Len(Answers(chats[chat].messageList)) = 2

\* ---------------------------------------------------------------- C30
\* C30: when every request of the initialization is answered at some time,
\* the initialization ends, whatever the answers are, and from then on a
\* chat is mounted, the networked chat or the emergency chat; the widget
\* does not stay in the resolving steps
C30_InitializationTerminates ==
  <>[](/\ initPc = "done"
       /\ chat # 0
       /\ chats[chat].mounted
       /\ chats[chat].kind \in {"networked", "emergency"})

\* C30 witness: the session was resumed, the history answer held a message
\* without content, and the initialization ended with the emergency chat
\* mounted
C30_EndedAfterMalformedHistory ==
  /\ initPc = "done"
  /\ useExisting
  /\ Succeeded("history")
  /\ Len(chats) = 2
  /\ chat = 2
  /\ chats[chat].kind = "emergency"
  /\ chats[chat].mounted

\* ---------------------------------------------------------------- C31
\* C31: when the answer of the history request arrives and its replay adds
\* messages to the chat, the chat holds no message submitted by the user
\* yet, so that every replayed message precedes every message of the
\* current session; this also when the user submits while the history
\* request is outstanding
C31_ReplayPrecedesSubmits ==
  [][(/\ initPc = "history"
      /\ initPc' = "done"
      /\ History(chats'[chat].messageList) # History(chats[chat].messageList)) =>
       UserMessages(chats[chat].messageList) = <<>>]_vars

\* ---------------------------------------------------------------- C32
\* C32: when the answer of the history request arrives after a
\* new-conversation action has replaced the resumed conversation, no message
\* of the answer is appended: the history of the chat is left as it was
C32_StaleHistoryDiscarded ==
  [][(/\ initPc = "history"
      /\ initPc' = "done"
      /\ conversationId # conversations[1].id) =>
       History(chats'[chat].messageList) = History(chats[chat].messageList)]_vars

\* ---------------------------------------------------------------- C33
\* C33: one widget never creates more than one chat, and never has more than
\* one chat mounted, however its initialization ends
C33_AtMostOneChat ==
  /\ Len(chats) <= 1
  /\ Cardinality({c \in 1..Len(chats) : chats[c].mounted}) <= 1

\* ---------------------------------------------------------------- C34
\* C34: once unmount() has been called on the returned object, no chat is
\* mounted, at the end of the call and at any later time, also when the call
\* was made while the session was resolving
C34_NothingMountedAfterUnmount ==
  Includes(apiCalls, "unmount") =>
    \A c \in 1..Len(chats) : ~chats[c].mounted

\* ---------------------------------------------------------------- C35
\* C35: in every state, the message list of a chat holds a typing indicator
\* if and only if a send of that chat is outstanding
C35_TypingIffOutstanding ==
  \A c \in 1..Len(chats) :
    HasTyping(chats[c].messageList)
      <=> \E i \in 1..Len(sends) : sends[i].chat = c /\ sends[i].status = "pending"

\* ---------------------------------------------------------------- C36
\* C36: once the session resolution has succeeded, and after every
\* new-conversation action that succeeded since, in whatever order their
\* responses arrived, the persisted client id is the client id of the
\* conversation whose id is the active conversationId
C36_PersistedIdOfActiveConversation ==
  Mode \in {"resumed", "created"} =>
    \E r \in 1..Len(remote) :
      /\ remote[r].id = conversationId
      /\ remote[r].client_id = storage

\* ---------------------------------------------------------------- C37
\* C37: when the page is reloaded with a session established and the
\* listing of the new page load is answered, the resolution resumes the
\* conversation that was active before the reload and issues no creation
\* request
C37_ReloadResumes ==
  (reloadedFrom # NoConv /\ Succeeded("list")) =>
    /\ useExisting
    /\ conversationId = reloadedFrom
    /\ Issued("create") = 0

====
